---- MODULE Spec2Model ----
(***************************************************************************)
(* The LDAP object data source of terraform-provider-ldap:                 *)
(* LDAPObjectDataSource.Configure / Read (data source file) and GetEntry   *)
(* (internal/provider/tools.go).  One data source object L holding a       *)
(* connection handle, read calls one after the other, and the directory    *)
(* behind the connection as the environment that answers a search.         *)
(***************************************************************************)
EXTENDS Integers, Sequences, FiniteSets, TLC

VARIABLES
    L_conn,         \* LDAPObjectDataSource.conn
    configureDiags, \* response.Diagnostics of the last Configure call
    pc,             \* position of the Read call in progress
    calls,          \* Read calls started so far
    data,           \* Read's local `data` (the decoded configuration)
    query,          \* Read's locals baseDn, scope, filter
    wire,           \* search requests handed to the connection by this call
    result,         \* GetEntry's locals result, err (what conn.Search returned)
    ret,            \* Read's locals entry, err (what GetEntry returned)
    diags,          \* response.Diagnostics of the Read call
    state           \* what the Read call wrote to response.State

vars == <<L_conn, configureDiags, pc, calls, data, query, wire, result, ret,
          diags, state>>

----------------------------------------------------------------------------
(* Bounds of the model *)

MaxEntries == 3     \* largest number of entries a search returns
MaxAttrs == 2       \* largest number of attributes of an entry
MaxCalls == 2       \* Read calls in one run

----------------------------------------------------------------------------
(* types.String of the plugin framework: null, unknown or a known string *)

StrNull == [state |-> "null", value |-> ""]
StrUnknown == [state |-> "unknown", value |-> ""]
Str(v) == [state |-> "known", value |-> v]

IsNull(s) == s.state = "null"
IsUnknown(s) == s.state = "unknown"
ValueString(s) == IF s.state = "known" THEN s.value ELSE ""

(* search scopes of go-ldap, as Read names them *)
ScopeBaseObject == 0
ScopeSingleLevel == 1
ScopeWholeSubtree == 2

MatchAll == "(&)"

----------------------------------------------------------------------------
(* Inputs *)

ConfigDNs == {StrNull, StrUnknown, Str("cn=alice,dc=example,dc=com")}
ConfigBaseDNs == {StrNull, Str("dc=example,dc=com")}
ScopeNames == {"baseObject", "singleLevel", "wholeSubtree"}
ConfigScopes == {StrNull, StrUnknown} \cup {Str(s) : s \in ScopeNames \cup {"subtree"}}
ConfigFilters == {StrNull, StrUnknown, Str("(cn=bob)")}

Configs == [DN : ConfigDNs, BaseDN : ConfigBaseDNs, Scope : ConfigScopes,
            Filter : ConfigFilters]

NoData == [DN |-> StrNull, BaseDN |-> StrNull, Scope |-> StrNull, Filter |-> StrNull]

NilConn == "nil"
Conns == {"conn1", "conn2"}
ProviderDatas == {"nil", "notAConn"} \cup Conns

(* what the directory holds: entries with uniquely named attributes *)
EntryDNs == {"cn=alice,dc=example,dc=com", "CN=Alice,DC=example,DC=com"}
AttrNames == {"objectClass", "objectclass", "cn"}
AttrValues == {<<"top", "person">>, <<"alice">>}
EntryAttributes == [Name : AttrNames, Values : AttrValues]

UniqueNames(as) == \A i, j \in 1..Len(as) : as[i].Name = as[j].Name => i = j

AttrSeqs == UNION {{as \in [1..k -> EntryAttributes] : UniqueNames(as)} : k \in 0..MaxAttrs}

Entries == [DN : EntryDNs, Attributes : AttrSeqs]

SampleEntries ==
    {[DN |-> "cn=alice,dc=example,dc=com",
      Attributes |-> <<[Name |-> "objectClass", Values |-> <<"top", "person">>]>>],
     [DN |-> "CN=Alice,DC=example,DC=com",
      Attributes |-> <<[Name |-> "cn", Values |-> <<"alice">>]>>]}

EntryLists ==
    {<<>>} \cup {<<e>> : e \in Entries}
           \cup UNION {[1..k -> SampleEntries] : k \in 2..MaxEntries}

(* errors: a Go error value is its dynamic type and its Error() text; a text
   is the format it was printed with and the values printed into it *)
Text(format, args) == [format |-> format, args |-> args]

NoErr == [type |-> "nil", text |-> Text("", <<>>)]
TransportErrs ==
    {[type |-> "ldap.Error",
      text |-> Text("LDAP Result Code 200 \"Network Error\": ldap: connection closed", <<>>)],
     [type |-> "ldap.Error",
      text |-> Text("LDAP Result Code 32 \"No Such Object\": ", <<>>)]}

SearchResults ==
    {[Entries |-> es, err |-> NoErr] : es \in EntryLists}
        \cup {[Entries |-> <<>>, err |-> e] : e \in TransportErrs}

----------------------------------------------------------------------------
(* Diagnostics *)

ErrorDiag(summary, detail) ==
    [severity |-> "error", summary |-> summary, detail |-> detail]

HasError(ds) == \E i \in 1..Len(ds) : ds[i].severity = "error"

(* what decoding the configuration into `data` can report (lines 108-114) *)
DecodeDiags ==
    {<<>>, <<ErrorDiag("Value Conversion Error", Text("cannot decode configuration", <<>>))>>}

----------------------------------------------------------------------------
(* The schema's validators (framework-run, before Read) *)

IsSet(s) == ~IsNull(s)

SchemaValid(d) ==
    /\ (IsSet(d.DN) /\ ~IsUnknown(d.DN) /\ ~IsUnknown(d.BaseDN)) => IsNull(d.BaseDN)
    /\ (IsNull(d.DN)) => IsSet(d.BaseDN)
    /\ (IsSet(d.Scope) /\ ~IsUnknown(d.Scope)) => ValueString(d.Scope) \in ScopeNames
    /\ (IsSet(d.Scope) /\ ~IsUnknown(d.DN)) => IsNull(d.DN)
    /\ (IsSet(d.Filter) /\ ~IsUnknown(d.DN)) => IsNull(d.DN)

----------------------------------------------------------------------------
(* Read, lines 119-148: the search triple *)

(* a resolver that lets base_dn win over dn *)
ResolveBaseDnPreferBase(d) ==
    IF IsUnknown(d.BaseDN) \/ IsNull(d.BaseDN)
        THEN ValueString(d.DN)
        ELSE ValueString(d.BaseDN)

ResolveBaseDn(d) ==
    IF IsUnknown(d.DN) \/ IsNull(d.DN)
        THEN ValueString(d.BaseDN)
        ELSE ValueString(d.DN)

(* a scope switch that lacks the wholeSubtree case *)
ResolveScopeNoSubtree(d) ==
    IF IsUnknown(d.Scope) \/ IsNull(d.Scope)
        THEN ScopeBaseObject
        ELSE CASE ValueString(d.Scope) = "baseObject" -> ScopeBaseObject
               [] ValueString(d.Scope) = "singleLevel" -> ScopeSingleLevel
               [] OTHER -> 0

ResolveScope(d) ==
    IF IsUnknown(d.Scope) \/ IsNull(d.Scope)
        THEN ScopeBaseObject
        ELSE CASE ValueString(d.Scope) = "baseObject" -> ScopeBaseObject
               [] ValueString(d.Scope) = "singleLevel" -> ScopeSingleLevel
               [] ValueString(d.Scope) = "wholeSubtree" -> ScopeWholeSubtree
               [] OTHER -> 0

ResolveFilter(d) ==
    IF IsUnknown(d.Filter) \/ IsNull(d.Filter)
        THEN MatchAll
        ELSE ValueString(d.Filter)

NoQuery == [baseDn |-> "", scope |-> 0, filter |-> ""]

Resolve(d) ==
    [baseDn |-> ResolveBaseDn(d), scope |-> ResolveScope(d), filter |-> ResolveFilter(d)]

----------------------------------------------------------------------------
(* GetEntry, tools.go *)

(* line 9: ldap.NewSearchRequest(baseDn, scope, 0, 0, 0, false, filter, {}, {}) *)
NewSearchRequest(baseDn, scope, filter) ==
    [BaseDN |-> baseDn, Scope |-> scope, DerefAliases |-> 0, SizeLimit |-> 0,
     TimeLimit |-> 0, TypesOnly |-> FALSE, Filter |-> filter,
     Attributes |-> <<>>, Controls |-> <<>>]

EmptyEntry == [DN |-> "", Attributes |-> <<>>]

(* a count error that reports the last index instead of the length *)
CountErrorLastIndex(n) ==
    [type |-> "errors.errorString", text |-> Text("search returned %d results", <<n - 1>>)]

(* line 15: fmt.Errorf("search returned %d results", n) *)
CountError(n) ==
    [type |-> "errors.errorString", text |-> Text("search returned %d results", <<n>>)]

NoReturn == [entry |-> EmptyEntry, err |-> NoErr]
NoResult == [Entries |-> <<>>, err |-> NoErr]

(* a GetEntry that takes the first entry of any non-empty result *)
GetEntryReturnFirst(res) ==
    IF res.err # NoErr
        THEN [entry |-> EmptyEntry, err |-> res.err]
        ELSE IF Len(res.Entries) < 1
            THEN [entry |-> EmptyEntry, err |-> CountError(Len(res.Entries))]
            ELSE [entry |-> res.Entries[1], err |-> NoErr]

(* lines 11-18: what GetEntry returns once conn.Search has returned res *)
GetEntryReturn(res) ==
    IF res.err # NoErr
        THEN [entry |-> EmptyEntry, err |-> res.err]
        ELSE IF Len(res.Entries) # 1
            THEN [entry |-> EmptyEntry, err |-> CountError(Len(res.Entries))]
            ELSE [entry |-> res.Entries[1], err |-> NoErr]

----------------------------------------------------------------------------
(* response.State of one Read call *)

EmptyMap == [n \in {} |-> <<>>]

NoState ==
    [written |-> {}, dn |-> "", id |-> "", object_classes |-> <<>>,
     attributes |-> EmptyMap]

(* a loop body that matches the object class attribute in any letter case *)
SetEntryAttributeAnyCase(st, attribute) ==
    IF attribute.Name \in {"objectClass", "objectclass"}
        THEN [st EXCEPT !.written = @ \cup {"object_classes"},
                        !.object_classes = attribute.Values]
        ELSE [st EXCEPT !.written = @ \cup {"attributes"},
                        !.attributes = (attribute.Name :> attribute.Values) @@ @]

(* lines 159-163: one turn of the loop over entry.Attributes *)
SetEntryAttribute(st, attribute) ==
    IF attribute.Name = "objectClass"
        THEN [st EXCEPT !.written = @ \cup {"object_classes"},
                        !.object_classes = attribute.Values]
        ELSE [st EXCEPT !.written = @ \cup {"attributes"},
                        !.attributes = (attribute.Name :> attribute.Values) @@ @]

RECURSIVE SetEntryAttributes(_, _)
SetEntryAttributes(st, attributes) ==
    IF attributes = <<>>
        THEN st
        ELSE SetEntryAttributes(SetEntryAttribute(st, Head(attributes)), Tail(attributes))

(* a success branch that keeps the configured dn when there is one *)
WriteEntryConfiguredDN(st, entry) ==
    SetEntryAttributes(
        [st EXCEPT !.written = @ \cup {"dn", "id"},
                   !.dn = IF IsNull(data.DN) \/ IsUnknown(data.DN)
                             THEN entry.DN ELSE ValueString(data.DN),
                   !.id = entry.DN],
        entry.Attributes)

(* lines 156-164: the success branch of Read *)
WriteEntry(st, entry) ==
    SetEntryAttributes(
        [st EXCEPT !.written = @ \cup {"dn", "id"}, !.dn = entry.DN, !.id = entry.DN],
        entry.Attributes)

----------------------------------------------------------------------------
(* a diagnostic that replaces the error's text by a text of its own *)
ReadDiagnosticRewritten(err) ==
    ErrorDiag("Can not read entry", Text("the directory search failed", <<>>))

(* lines 151-154: the diagnostic Read adds when GetEntry failed *)
ReadDiagnostic(err) == ErrorDiag("Can not read entry", err.text)

----------------------------------------------------------------------------
(* Operations *)

Init ==
    /\ L_conn = NilConn
    /\ configureDiags = <<>>
    /\ pc = "idle"
    /\ calls = 0
    /\ data = NoData
    /\ query = NoQuery
    /\ wire = <<>>
    /\ result = NoResult
    /\ ret = NoReturn
    /\ diags = <<>>
    /\ state = NoState

(* Configure, lines 89-104 *)
Configure(providerData) ==
    /\ pc = "idle"
    /\ IF providerData = "nil"
          THEN /\ configureDiags' = <<>>
               /\ UNCHANGED L_conn
          ELSE IF providerData \notin Conns
              THEN /\ configureDiags' =
                        <<ErrorDiag("Unexpected Datasource Configure Type",
                                    Text("Expected *ldap.Conn, got: %T. Please report this issue to the provider developers.",
                                         <<providerData>>))>>
                   /\ UNCHANGED L_conn
              ELSE /\ L_conn' = providerData
                   /\ configureDiags' = <<>>
    /\ UNCHANGED <<pc, calls, data, query, wire, result, ret, diags, state>>

(* Read, lines 106-148: decode the configuration, return on a decoding error,
   else compute baseDn, scope and filter and enter GetEntry *)
ReadBegin(config, decoded) ==
    /\ pc = "idle"
    /\ calls < MaxCalls
    /\ calls' = calls + 1
    /\ data' = config
    /\ diags' = decoded
    /\ state' = NoState
    /\ wire' = <<>>
    /\ result' = NoResult
    /\ ret' = NoReturn
    /\ IF HasError(decoded)
          THEN /\ pc' = "done"
               /\ query' = NoQuery
          ELSE /\ pc' = "search"
               /\ query' = Resolve(config)
    /\ UNCHANGED <<L_conn, configureDiags>>

(* GetEntry, lines 9-11: build the request and call conn.Search; a nil
   *ldap.Conn is dereferenced inside Search and the call panics *)
Search ==
    /\ pc = "search"
    /\ IF L_conn = NilConn
          THEN /\ pc' = "panic"
               /\ UNCHANGED wire
          ELSE /\ pc' = "await"
               /\ wire' = Append(wire, [conn |-> L_conn,
                                        request |-> NewSearchRequest(query.baseDn, query.scope, query.filter)])
    /\ UNCHANGED <<L_conn, configureDiags, calls, data, query, result, ret, diags, state>>

(* a GetEntry that searches once more when the first search failed *)
SearchReturnsRetry(res) ==
    /\ pc = "await"
    /\ result' = res
    /\ ret' = GetEntryReturn(res)
    /\ pc' = IF res.err # NoErr /\ Len(wire) < 2 THEN "search" ELSE "returned"
    /\ UNCHANGED <<L_conn, configureDiags, calls, data, query, wire, diags, state>>

(* GetEntry, lines 11-18: conn.Search returns res and GetEntry returns *)
SearchReturns(res) ==
    /\ pc = "await"
    /\ result' = res
    /\ ret' = GetEntryReturn(res)
    /\ pc' = "returned"
    /\ UNCHANGED <<L_conn, configureDiags, calls, data, query, wire, diags, state>>

(* Read, lines 150-165 *)
ReadEnd ==
    /\ pc = "returned"
    /\ IF ret.err # NoErr
          THEN /\ diags' = Append(diags, ReadDiagnostic(ret.err))
               /\ UNCHANGED state
          ELSE /\ state' = WriteEntry(state, ret.entry)
               /\ UNCHANGED diags
    /\ pc' = "done"
    /\ UNCHANGED <<L_conn, configureDiags, calls, data, query, wire, result, ret>>

(* Read has returned: the framework takes the response, the call's locals are
   gone and the data source is ready for the next call *)
Return ==
    /\ pc = "done"
    /\ pc' = "idle"
    /\ data' = NoData
    /\ query' = NoQuery
    /\ wire' = <<>>
    /\ result' = NoResult
    /\ ret' = NoReturn
    /\ diags' = <<>>
    /\ state' = NoState
    /\ UNCHANGED <<L_conn, configureDiags, calls>>

Next ==
    \/ \E providerData \in ProviderDatas : Configure(providerData)
    \/ \E config \in Configs, decoded \in DecodeDiags : ReadBegin(config, decoded)
    \/ Search
    \/ \E res \in SearchResults : SearchReturns(res)
    \/ ReadEnd
    \/ Return

Spec == Init /\ [][Next]_vars

----------------------------------------------------------------------------
(* Properties *)

Known(s) == ~IsNull(s) /\ ~IsUnknown(s)
Absent(s) == IsNull(s) \/ IsUnknown(s)

Sent == wire # <<>>
Request == wire[1].request
ReadEnded == pc \in {"done", "panic"}
Searched == pc \in {"returned", "done"} /\ Sent
ReadSucceeded == pc = "done" /\ Sent /\ ret.err = NoErr
AllPaths == {"dn", "id", "object_classes", "attributes"}

ScopeOf == [baseObject |-> 0, singleLevel |-> 1, wholeSubtree |-> 2]

(* C1 as stated: whenever dn is set the query sent is (dn, BaseObject, "(&)"),
   whatever base_dn, scope and filter are. *)
C1_IdentifierOverridesAll ==
    (Sent /\ Known(data.DN)) =>
        /\ Request.BaseDN = data.DN.value
        /\ Request.Scope = ScopeBaseObject
        /\ Request.Filter = MatchAll

(* C1 amended: whenever dn is set the query is located at dn whatever base_dn
   is; its scope is BaseObject and its filter "(&)" when scope and filter are
   absent, as the schema's validators require beside dn; a scope or filter
   given beside dn is sent as given, not overridden. *)
C1_IdentifierQuery ==
    (Sent /\ Known(data.DN)) =>
        /\ Request.BaseDN = data.DN.value
        /\ Absent(data.Scope) => Request.Scope = ScopeBaseObject
        /\ Absent(data.Filter) => Request.Filter = MatchAll
        /\ (Known(data.Scope) /\ data.Scope.value \in ScopeNames)
               => Request.Scope = ScopeOf[data.Scope.value]
        /\ Known(data.Filter) => Request.Filter = data.Filter.value
        /\ SchemaValid(data) =>
               /\ Request.Scope = ScopeBaseObject
               /\ Request.Filter = MatchAll

C1_Witness ==
    /\ Sent
    /\ Known(data.DN)
    /\ Known(data.BaseDN)
    /\ Absent(data.Scope) /\ Absent(data.Filter)
    /\ Request.BaseDN = "cn=alice,dc=example,dc=com"
    /\ Request.Scope = ScopeBaseObject
    /\ Request.Filter = MatchAll

(* C2: with base_dn set and dn null or unknown the query is located at base_dn,
   its scope is the one named (BaseObject when absent) and its filter the one
   given (match-all when absent). *)
C2_SearchQuery ==
    (Sent /\ Absent(data.DN) /\ Known(data.BaseDN)) =>
        /\ Request.BaseDN = data.BaseDN.value
        /\ Absent(data.Scope) => Request.Scope = ScopeBaseObject
        /\ (Known(data.Scope) /\ data.Scope.value \in ScopeNames)
               => Request.Scope = ScopeOf[data.Scope.value]
        /\ Absent(data.Filter) => Request.Filter = MatchAll
        /\ Known(data.Filter) => Request.Filter = data.Filter.value

C2_Witness ==
    /\ Sent
    /\ IsUnknown(data.DN)
    /\ Known(data.BaseDN)
    /\ data.Scope = Str("wholeSubtree")
    /\ data.Filter = Str("(cn=bob)")
    /\ Request.BaseDN = "dc=example,dc=com"
    /\ Request.Scope = ScopeWholeSubtree
    /\ Request.Filter = "(cn=bob)"

(* C3: GetEntry succeeds exactly when the search returned without an error and
   with one entry; it then returns that entry unmodified, and otherwise an
   error and the empty entry. *)
C3_ExactlyOne ==
    Searched =>
        /\ (ret.err = NoErr) <=> (result.err = NoErr /\ Len(result.Entries) = 1)
        /\ ret.err = NoErr => ret.entry = result.Entries[1]
        /\ ret.err # NoErr => ret.entry = EmptyEntry

C3_Witness ==
    /\ Searched
    /\ ret.err = NoErr
    /\ Len(ret.entry.Attributes) = 2
    /\ ret.entry = result.Entries[1]

(* the kind of an error: its type and the format of its text, without the
   values printed into it *)
ErrKind(e) == [type |-> e.type, format |-> e.text.format]

(* C4 as stated: zero entries and two or more entries fail with errors of
   distinct kinds, the second carrying the number of entries. *)
C4_DistinctKinds ==
    (Searched /\ result.err = NoErr /\ Len(result.Entries) = 0) =>
        \A n \in 2..MaxEntries : ErrKind(ret.err) # ErrKind(CountError(n))

(* C4 amended: a search that matches n entries, n = 0 or n >= 2, fails with
   the one error "search returned n results", of the same kind for zero and
   for several entries, which carries the exact number n. *)
C4_CountError ==
    (Searched /\ result.err = NoErr /\ Len(result.Entries) # 1) =>
        /\ ret.err.type = "errors.errorString"
        /\ ret.err.text = Text("search returned %d results", <<Len(result.Entries)>>)
        /\ ret.entry = EmptyEntry

C4_Witness ==
    /\ Searched
    /\ result.err = NoErr
    /\ Len(result.Entries) = MaxEntries
    /\ ret.err.text.args = <<MaxEntries>>

(* C5: a Read without a connection handle ends without attempting a search
   and with an error diagnostic. *)
C5_NoHandleIsReported ==
    (L_conn = NilConn /\ ReadEnded) =>
        /\ pc = "done"
        /\ ~Sent
        /\ HasError(diags)

(* C6: after a successful read object_classes is the value list of the
   attribute named exactly "objectClass", attributes has no "objectClass" key,
   and every other attribute is in attributes under its own name with its
   value list as returned. *)
C6_Normalized ==
    ReadSucceeded =>
        /\ \A i \in 1..Len(ret.entry.Attributes) :
              LET a == ret.entry.Attributes[i] IN
              IF a.Name = "objectClass"
                  THEN /\ "object_classes" \in state.written
                       /\ state.object_classes = a.Values
                  ELSE /\ a.Name \in DOMAIN state.attributes
                       /\ state.attributes[a.Name] = a.Values
        /\ "objectClass" \notin DOMAIN state.attributes

C6_Witness ==
    /\ ReadSucceeded
    /\ Len(ret.entry.Attributes) = 2
    /\ ret.entry.Attributes[1] = [Name |-> "objectclass", Values |-> <<"alice">>]
    /\ ret.entry.Attributes[2] = [Name |-> "objectClass", Values |-> <<"top", "person">>]
    /\ state.object_classes = <<"top", "person">>
    /\ DOMAIN state.attributes = {"objectclass"}

(* C7: after a successful read id and dn are both the location of the entry
   the directory returned, whatever dn the caller gave. *)
C7_LocationCopied ==
    ReadSucceeded =>
        /\ {"dn", "id"} \subseteq state.written
        /\ state.dn = result.Entries[1].DN
        /\ state.id = result.Entries[1].DN

C7_Witness ==
    /\ ReadSucceeded
    /\ Known(data.DN)
    /\ data.DN.value # result.Entries[1].DN
    /\ state.dn = "CN=Alice,DC=example,DC=com"
    /\ state.id = state.dn

(* C8: every Read ends either with dn, id, object_classes and attributes all
   written from the matched entry and no error, or with an error and none of
   them written. *)
C8_NoPartialSuccess ==
    ReadEnded =>
        \/ /\ ~HasError(diags)
           /\ state.written = AllPaths
           /\ state.dn = ret.entry.DN
           /\ state.id = ret.entry.DN
        \/ /\ HasError(diags)
           /\ state.written = {}

(* C9: when the search itself fails GetEntry returns that error unchanged and
   no entry, and Read reports exactly one error diagnostic whose detail is the
   error's text. *)
C9_ErrorVerbatim ==
    (Searched /\ result.err # NoErr) =>
        /\ ret.err = result.err
        /\ ret.entry = EmptyEntry
        /\ pc = "done" =>
               /\ Len(diags) = 1
               /\ diags[1].severity = "error"
               /\ diags[1].detail = result.err.text
               /\ state.written = {}

C9_Witness ==
    /\ pc = "done"
    /\ Sent
    /\ result.err \in TransportErrs
    /\ diags = <<ErrorDiag("Can not read entry", result.err.text)>>

(* C10: a Read hands at most one search to the connection, to the stored
   handle, whatever the outcome, and the stored handle is the same from the
   start of the call to its end. *)
C10_OneRoundTrip ==
    /\ [](Len(wire) <= 1 /\ \A i \in 1..Len(wire) : wire[i].conn = L_conn)
    /\ [][(pc # "idle" \/ pc' # "idle") => L_conn' = L_conn]_vars

C10_Witness ==
    /\ pc = "done"
    /\ calls = MaxCalls
    /\ Len(wire) = 1
    /\ result.err \in TransportErrs

====
